---- MODULE Spec2Model ----
(***************************************************************************)
(* Model of sistema_correo.py: messages, the folder tree of each user, the *)
(* priority queue (heapq), the mail server with its keyword filters and    *)
(* the server graph with BFS/DFS routing.                                  *)
(*                                                                         *)
(* Python objects live in arenas: a Mensaje is its index in `mensajes`, a  *)
(* Carpeta its index in `carpetas`, a Usuario its index in `objUsuarios`;  *)
(* object identity is index equality.  A ServidorCorreo is identified by   *)
(* its name.  Text (subjects, bodies, keywords, folder names, paths, email *)
(* addresses) is a sequence of one-character strings, so that lower(),     *)
(* strip(), split() and the substring test are computed, not assumed.      *)
(* An exception raised by an operation is recorded in llamada.err.         *)
(***************************************************************************)
EXTENDS Integers, Sequences, FiniteSets, TLC

VARIABLES
    mensajes,      \* arena of Mensaje objects
    carpetas,      \* arena of Carpeta objects
    objUsuarios,   \* arena of Usuario objects
    usuarios,      \* ServidorCorreo._usuarios : server -> (email -> Usuario)
    filtros,       \* ServidorCorreo._filtros  : server -> ordered dict, as a sequence
    cola,          \* ServidorCorreo._cola_prioridades._heap : server -> list of <<num, Mensaje>>
    servidores,    \* RedServidores._servidores : the names that map to a server
    conexiones,    \* RedServidores._conexiones : name -> list of names
    llamada        \* the last call made on the core: operation, arguments, result, error

vars == <<mensajes, carpetas, objUsuarios, usuarios, filtros, cola,
          servidores, conexiones, llamada>>

-----------------------------------------------------------------------------
(* Bounds of the model *)

MaxMensajesCola == 7
MaxMensajes == 3
MaxMensajesFiltros == 2
MaxMensajesCarpetas == 2
MaxSubcarpetas == 2
MaxMensajesBuscar == 2
MaxSubcarpetasBuscar == 1

MaxUsuarios == 4
MaxMensajesUsuarios == 2

MaxMensajesPop == 4

MaxUsuariosArbol == 3
MaxSubcarpetasArbol == 1
MaxMensajesArbol == 1

MaxMensajesRedactar == 3
MaxEnvios == 2

MaxMensajesEnviados == 2
MaxUsuariosEnviados == 3

MaxMensajesListar == 2
MaxCarpetasListar == 13

MaxConexiones == 3
MaxMensajesRed == 1

-----------------------------------------------------------------------------
(* Text *)

Mayusculas == <<"A","B","C","D","E","F","G","H","I","J","K","L","M",
                "N","O","P","Q","R","S","T","U","V","W","X","Y","Z">>
Minusculas == <<"a","b","c","d","e","f","g","h","i","j","k","l","m",
                "n","o","p","q","r","s","t","u","v","w","x","y","z">>

\* str.lower() on one character
lower_c(c) ==
    IF \E i \in 1..Len(Mayusculas) : Mayusculas[i] = c
    THEN Minusculas[CHOOSE i \in 1..Len(Mayusculas) : Mayusculas[i] = c]
    ELSE c

\* str.lower()
lower(s) == [i \in 1..Len(s) |-> lower_c(s[i])]

\* Python's `p in t` on strings
Contiene(p, t) ==
    \E i \in 0..(Len(t) - Len(p)) : SubSeq(t, i + 1, i + Len(p)) = p

Espacio == <<" ">>

LUIS == <<"l","u","i","s","@","m","a","i","l",".","c","o","m">>
ANA == <<"a","n","a","@","m","a","i","l",".","c","o","m">>
OTRO == <<"o","t","r","o","@","x",".","c","o","m">>

Entrada == <<"E","n","t","r","a","d","a">>
Enviados == <<"E","n","v","i","a","d","o","s">>
Prioritarios == <<"P","r","i","o","r","i","t","a","r","i","o","s">>
Promociones == <<"P","r","o","m","o","c","i","o","n","e","s">>
Academicos == <<"A","c","a","d","e","m","i","c","o","s">>
Root == <<"R","o","o","t">>

urgente == <<"u","r","g","e","n","t","e">>
oferta == <<"o","f","e","r","t","a">>
universidad == <<"u","n","i","v","e","r","s","i","d","a","d">>

Hola == <<"H","o","l","a">>

-----------------------------------------------------------------------------
(* Mensaje *)

Prioridades == {"Alta", "Media", "Baja"}

\* Mensaje that stores the priority as given
Mensaje_prioridad_dada(remitente, destinatario, asunto, cuerpo, prioridad) ==
    [remitente |-> remitente, destinatario |-> destinatario,
     asunto |-> asunto, cuerpo |-> cuerpo, leido |-> FALSE,
     prioridad |-> prioridad]

\* Mensaje.__init__ after the recipient check: an invalid priority becomes
\* "Media".  The uuid is the arena index; the timestamp is not modelled.
Mensaje(remitente, destinatario, asunto, cuerpo, prioridad) ==
    [remitente |-> remitente, destinatario |-> destinatario,
     asunto |-> asunto, cuerpo |-> cuerpo, leido |-> FALSE,
     prioridad |-> IF prioridad \notin Prioridades THEN "Media" ELSE prioridad]

-----------------------------------------------------------------------------
(* Carpeta: [nombre, mensajes, subcarpetas, padre]; subcarpetas is the      *)
(* dict name -> Carpeta in insertion order, as a sequence of [k, v];        *)
(* padre = 0 is None.                                                       *)

Carpeta(nombre, padre) ==
    [nombre |-> nombre, mensajes |-> <<>>, subcarpetas |-> <<>>, padre |-> padre]

\* Carpeta.agregar_mensaje
agregar_mensaje(cs, f, m) ==
    [cs EXCEPT ![f].mensajes = Append(@, m)]

\* Carpeta.obtener_subcarpeta: the child's index, 0 for None
obtener_subcarpeta(cs, f, nombre) ==
    LET d == cs[f].subcarpetas
    IN IF \E i \in 1..Len(d) : d[i].k = nombre
       THEN d[CHOOSE i \in 1..Len(d) : d[i].k = nombre].v
       ELSE 0

\* crear_subcarpeta without the test for an existing name: the dict entry of
\* the name is overwritten
crear_subcarpeta_sin_control(cs, f, nombre) ==
    LET nueva == Len(cs) + 1
        cs1 == Append(cs, Carpeta(nombre, f))
        d == cs[f].subcarpetas
        d1 == IF \E i \in 1..Len(d) : d[i].k = nombre
              THEN [i \in 1..Len(d) |->
                      IF d[i].k = nombre THEN [k |-> nombre, v |-> nueva] ELSE d[i]]
              ELSE Append(d, [k |-> nombre, v |-> nueva])
    IN [err |-> "", cs |-> [cs1 EXCEPT ![f].subcarpetas = d1], nueva |-> nueva]

\* crear_subcarpeta that forgets the parent of the new folder
crear_subcarpeta_sin_padre(cs, f, nombre) ==
    IF \E i \in 1..Len(cs[f].subcarpetas) : cs[f].subcarpetas[i].k = nombre
    THEN [err |-> "ValueError", cs |-> cs, nueva |-> 0]
    ELSE LET nueva == Len(cs) + 1
             cs1 == Append(cs, Carpeta(nombre, 0))
         IN [err |-> "",
             cs |-> [cs1 EXCEPT ![f].subcarpetas = Append(@, [k |-> nombre, v |-> nueva])],
             nueva |-> nueva]

\* Carpeta.crear_subcarpeta: [err, cs, nueva]
crear_subcarpeta(cs, f, nombre) ==
    IF \E i \in 1..Len(cs[f].subcarpetas) : cs[f].subcarpetas[i].k = nombre
    THEN [err |-> "ValueError", cs |-> cs, nueva |-> 0]
    ELSE LET nueva == Len(cs) + 1
             cs1 == Append(cs, Carpeta(nombre, f))
         IN [err |-> "",
             cs |-> [cs1 EXCEPT ![f].subcarpetas = Append(@, [k |-> nombre, v |-> nueva])],
             nueva |-> nueva]

\* Usuario.obtener_carpeta on the user's root: [cs, sub]
obtener_carpeta(cs, raiz, nombre) ==
    LET sub == obtener_subcarpeta(cs, raiz, nombre)
    IN IF sub = 0
       THEN LET r == crear_subcarpeta(cs, raiz, nombre)
            IN [cs |-> r.cs, sub |-> r.nueva]
       ELSE [cs |-> cs, sub |-> sub]

\* Usuario.__init__: a root with Entrada, Enviados and Prioritarios: [cs, raiz]
Usuario(cs) ==
    LET raiz == Len(cs) + 1
        c0 == Append(cs, Carpeta(Root, 0))
        c1 == crear_subcarpeta(c0, raiz, Entrada).cs
        c2 == crear_subcarpeta(c1, raiz, Enviados).cs
        c3 == crear_subcarpeta(c2, raiz, Prioritarios).cs
    IN [cs |-> c3, raiz |-> raiz]

\* Usuario.redactar of the user with that email on the message arena ms:
\* [ms, err, m]; the constructor raises on an empty recipient before it
\* stores anything, m = 0 then
redactar(ms, email, destinatario, asunto, cuerpo, prioridad) ==
    IF destinatario = <<>>
    THEN [ms |-> ms, err |-> "ValueError", m |-> 0]
    ELSE [ms |-> Append(ms, Mensaje(email, destinatario, asunto, cuerpo, prioridad)),
          err |-> "", m |-> Len(ms) + 1]

\* list.remove(x): the first occurrence goes
Remove(l, x) ==
    LET i == CHOOSE k \in 1..Len(l) : l[k] = x /\ \A j \in 1..(k - 1) : l[j] # x
    IN SubSeq(l, 1, i - 1) \o SubSeq(l, i + 1, Len(l))

\* Carpeta.quitar_mensaje (the message is in the folder wherever it is called)
quitar_mensaje(cs, f, m) ==
    [cs EXCEPT ![f].mensajes = Remove(@, m)]

\* obtener_por_indice without the lower bound: a negative index counts from the end
obtener_por_indice_sin_cota(cs, f, idx) ==
    LET n == Len(cs[f].mensajes)
    IN IF idx < n /\ idx >= -n
       THEN cs[f].mensajes[IF idx >= 0 THEN idx + 1 ELSE n + idx + 1]
       ELSE 0

\* Carpeta.obtener_por_indice: the message at the 0-based index, 0 for None
obtener_por_indice(cs, f, idx) ==
    IF 0 <= idx /\ idx < Len(cs[f].mensajes) THEN cs[f].mensajes[idx + 1] ELSE 0

-----------------------------------------------------------------------------
(* SistemaCorreo *)

\* mover_mensaje that forgets to remove the message from the source
mover_mensaje_sin_quitar(cs, carpeta_origen, indice, carpeta_destino) ==
    LET mensaje == obtener_por_indice(cs, carpeta_origen, indice)
    IN IF mensaje = 0 THEN [cs |-> cs, err |-> "IndexError"]
       ELSE [cs |-> agregar_mensaje(cs, carpeta_destino, mensaje), err |-> ""]

\* SistemaCorreo.mover_mensaje: [cs, err]
mover_mensaje(cs, carpeta_origen, indice, carpeta_destino) ==
    LET mensaje == obtener_por_indice(cs, carpeta_origen, indice)
    IN IF mensaje = 0 THEN [cs |-> cs, err |-> "IndexError"]
       ELSE [cs |-> agregar_mensaje(quitar_mensaje(cs, carpeta_origen, mensaje),
                                    carpeta_destino, mensaje),
             err |-> ""]

Barra == "/"

\* str.strip("/")
RECURSIVE lstrip(_)
lstrip(s) == IF s # <<>> /\ Head(s) = Barra THEN lstrip(Tail(s)) ELSE s

RECURSIVE rstrip(_)
rstrip(s) ==
    IF s # <<>> /\ s[Len(s)] = Barra THEN rstrip(SubSeq(s, 1, Len(s) - 1)) ELSE s

strip(s) == rstrip(lstrip(s))

\* str.split("/"): one piece more than there are slashes, [""] for ""
RECURSIVE split(_)
split(s) ==
    IF \E i \in 1..Len(s) : s[i] = Barra
    THEN LET i == CHOOSE k \in 1..Len(s) : s[k] = Barra /\ \A j \in 1..(k - 1) : s[j] # Barra
         IN <<SubSeq(s, 1, i - 1)>> \o split(SubSeq(s, i + 1, Len(s)))
    ELSE <<s>>

\* the loop of obtener_por_ruta: [err, carpeta, p], p the part named in the error
RECURSIVE navegar(_, _, _)
navegar(cs, actual, partes) ==
    IF partes = <<>> THEN [err |-> "", carpeta |-> actual, p |-> <<>>]
    ELSE LET sub == obtener_subcarpeta(cs, actual, Head(partes))
         IN IF sub = 0
            THEN [err |-> "ValueError", carpeta |-> 0, p |-> Head(partes)]
            ELSE navegar(cs, sub, Tail(partes))

\* obtener_por_ruta that splits the path without strip("/")
obtener_por_ruta_sin_strip(cs, carpeta_raiz, ruta) ==
    navegar(cs, carpeta_raiz, split(ruta))

\* SistemaCorreo.obtener_por_ruta
obtener_por_ruta(cs, carpeta_raiz, ruta) ==
    navegar(cs, carpeta_raiz, split(strip(ruta)))

-----------------------------------------------------------------------------
\* the test of _buscar on one message; texto is already lowercase
coincide(ms, m, texto) ==
    Contiene(texto, lower(ms[m].asunto)) \/ Contiene(texto, lower(ms[m].remitente))

\* _buscar that looks at the subject only
RECURSIVE buscar_solo_asunto(_, _, _, _)
buscar_solo_asunto(cs, ms, carpeta, texto) ==
    LET propios == SelectSeq(cs[carpeta].mensajes,
                             LAMBDA m : Contiene(texto, lower(ms[m].asunto)))
        subs == cs[carpeta].subcarpetas
        RECURSIVE Junta(_)
        Junta(i) == IF i > Len(subs) THEN <<>>
                    ELSE buscar_solo_asunto(cs, ms, subs[i].v, texto) \o Junta(i + 1)
    IN [i \in 1..Len(propios) |-> <<carpeta, propios[i]>>] \o Junta(1)

\* _buscar of buscar_mensajes_recursivo: the list of <<Carpeta, Mensaje>>
RECURSIVE buscar(_, _, _, _)
buscar(cs, ms, carpeta, texto) ==
    LET propios == SelectSeq(cs[carpeta].mensajes, LAMBDA m : coincide(ms, m, texto))
        subs == cs[carpeta].subcarpetas
        RECURSIVE Junta(_)
        Junta(i) == IF i > Len(subs) THEN <<>>
                    ELSE buscar(cs, ms, subs[i].v, texto) \o Junta(i + 1)
    IN [i \in 1..Len(propios) |-> <<carpeta, propios[i]>>] \o Junta(1)

\* SistemaCorreo.buscar_mensajes_recursivo
buscar_mensajes_recursivo(cs, ms, carpeta_raiz, texto) ==
    buscar(cs, ms, carpeta_raiz, lower(texto))

(* ColaPrioridades over heapq.  The heap is a list of <<num, Mensaje>>;     *)
(* positions are 0-based as in heapq, h[p + 1] is the item at position p.   *)

\* ColaPrioridades._valor.get(prioridad, 2)
valor(prioridad) ==
    CASE prioridad = "Alta" -> 1
      [] prioridad = "Media" -> 2
      [] prioridad = "Baja" -> 3
      [] OTHER -> 2

\* (num, mensaje) < (num, mensaje): tuples compare item by item; two
\* different Mensaje objects are unequal and have no order: TypeError.
Lt(x, y) ==
    IF x[1] # y[1] THEN (IF x[1] < y[1] THEN "T" ELSE "F")
    ELSE IF x[2] = y[2] THEN "F"
    ELSE "TypeError"

Swap(h, p, q) == [h EXCEPT ![p + 1] = h[q + 1], ![q + 1] = h[p + 1]]

\* heapq's siftdown (the item at pos moves towards the root): [h, err]
RECURSIVE siftdown(_, _, _)
siftdown(h, startpos, pos) ==
    IF pos <= startpos THEN [h |-> h, err |-> ""]
    ELSE LET parentpos == (pos - 1) \div 2
             cmp == Lt(h[pos + 1], h[parentpos + 1])
         IN CASE cmp = "TypeError" -> [h |-> h, err |-> "TypeError"]
              [] cmp = "F" -> [h |-> h, err |-> ""]
              [] cmp = "T" -> siftdown(Swap(h, pos, parentpos), startpos, parentpos)

\* heapq's siftup (the smaller child bubbles up until a leaf): [h, err]
RECURSIVE siftup_desde(_, _, _)
siftup_desde(h, startpos, pos) ==
    LET endpos == Len(h)
        limit == endpos \div 2
        childpos == 2 * pos + 1
    IN IF pos >= limit THEN siftdown(h, startpos, pos)
       ELSE IF childpos + 1 < endpos
            THEN LET cmp == Lt(h[childpos + 1], h[childpos + 2])
                 IN IF cmp = "TypeError" THEN [h |-> h, err |-> "TypeError"]
                    ELSE LET c == IF cmp = "T" THEN childpos ELSE childpos + 1
                         IN siftup_desde(Swap(h, c, pos), startpos, c)
            ELSE siftup_desde(Swap(h, childpos, pos), startpos, childpos)

siftup(h, pos) == siftup_desde(h, pos, pos)

\* heapq.heappush: the item is appended, then sifted: [h, err]
heappush(h, item) == siftdown(Append(h, item), 0, Len(h))

\* heapq.heappop on a non-empty heap: [h, err, item]
heappop(h) ==
    LET n == Len(h)
        lastelt == h[n]
        h1 == SubSeq(h, 1, n - 1)
    IN IF n = 1 THEN [h |-> h1, err |-> "", item |-> lastelt]
       ELSE LET r == siftup([h1 EXCEPT ![1] = lastelt], 0)
            IN [h |-> r.h, err |-> r.err, item |-> h1[1]]

\* ColaPrioridades.agregar: [h, err]
agregar(h, ms, m) == heappush(h, <<valor(ms[m].prioridad), m>>)

\* ColaPrioridades.esta_vacia
esta_vacia(h) == h = <<>>

\* ColaPrioridades.procesar: [h, err, m]; m = 0 is None
procesar(h) ==
    IF h = <<>> THEN [h |-> h, err |-> "", m |-> 0]
    ELSE LET r == heappop(h)
         IN [h |-> r.h, err |-> r.err, m |-> IF r.err = "" THEN r.item[2] ELSE 0]

-----------------------------------------------------------------------------
(* ServidorCorreo *)

FiltrosIniciales ==
    << [k |-> urgente, v |-> Prioritarios],
       [k |-> oferta, v |-> Promociones],
       [k |-> universidad, v |-> Academicos] >>

\* registrar_usuario that overwrites the registration
registrar_usuario_sobrescribe(us, u, email) ==
    [us |-> [e \in (DOMAIN us) \cup {email} |-> IF e = email THEN u ELSE us[e]],
     err |-> ""]

\* ServidorCorreo.registrar_usuario of Usuario u with that email on the
\* registration dict us: [us, err]
registrar_usuario(us, u, email) ==
    IF email \in DOMAIN us
    THEN [us |-> us, err |-> "ValueError"]
    ELSE [us |-> [e \in (DOMAIN us) \cup {email} |-> IF e = email THEN u ELSE us[e]],
          err |-> ""]

\* ServidorCorreo._obtener_usuario: the Usuario, 0 when it raises ValueError
obtener_usuario(us, email) ==
    IF email \in DOMAIN us THEN us[email] ELSE 0

\* dict assignment d[k] = v on an ordered dict: an existing key keeps its place
DictSet(d, k, v) ==
    IF \E i \in 1..Len(d) : d[i].k = k
    THEN [i \in 1..Len(d) |-> IF d[i].k = k THEN [k |-> k, v |-> v] ELSE d[i]]
    ELSE Append(d, [k |-> k, v |-> v])

\* ServidorCorreo.agregar_filtro
agregar_filtro(fs, palabra_clave, carpeta_destino) ==
    DictSet(fs, lower(palabra_clave), carpeta_destino)

\* the folder name _aplicar_filtros chooses: the first keyword found in the text
carpeta_por_filtros(fs, m) ==
    LET texto == lower(m.asunto \o Espacio \o m.cuerpo)
        hits == {i \in 1..Len(fs) : Contiene(fs[i].k, texto)}
    IN IF hits = {} THEN Entrada
       ELSE fs[CHOOSE i \in hits : \A j \in hits : i <= j].v

\* ServidorCorreo._aplicar_filtros: the new folder arena
aplicar_filtros(cs, fs, ms, m, raiz) ==
    LET r == obtener_carpeta(cs, raiz, carpeta_por_filtros(fs, ms[m]))
    IN agregar_mensaje(r.cs, r.sub, m)

\* enviar that files the sender's copy after the push, so not when it raises
enviar_copia_tras_cola(s, ms, cs, h, m) ==
    LET us == usuarios[s]
        q == agregar(h, ms, m)
        cs1 == IF ms[m].remitente \in DOMAIN us
               THEN LET r == obtener_carpeta(cs, objUsuarios[us[ms[m].remitente]].raiz, Enviados)
                    IN agregar_mensaje(r.cs, r.sub, m)
               ELSE cs
    IN IF q.err # "" THEN [cs |-> cs, h |-> q.h, err |-> q.err]
       ELSE IF ms[m].destinatario \in DOMAIN us
            THEN [cs |-> aplicar_filtros(cs1, filtros[s], ms, m,
                                         objUsuarios[us[ms[m].destinatario]].raiz),
                  h |-> q.h, err |-> ""]
            ELSE [cs |-> cs1, h |-> q.h, err |-> ""]

\* enviar with the push moved under `if remitente:`
enviar_si_remitente_local(s, ms, cs, h, m) ==
    LET us == usuarios[s]
        local == ms[m].remitente \in DOMAIN us
        cs1 == IF local
               THEN LET r == obtener_carpeta(cs, objUsuarios[us[ms[m].remitente]].raiz, Enviados)
                    IN agregar_mensaje(r.cs, r.sub, m)
               ELSE cs
        q == IF local THEN agregar(h, ms, m) ELSE [h |-> h, err |-> ""]
    IN IF q.err # "" THEN [cs |-> cs1, h |-> q.h, err |-> q.err]
       ELSE IF ms[m].destinatario \in DOMAIN us
            THEN [cs |-> aplicar_filtros(cs1, filtros[s], ms, m,
                                         objUsuarios[us[ms[m].destinatario]].raiz),
                  h |-> q.h, err |-> ""]
            ELSE [cs |-> cs1, h |-> q.h, err |-> ""]

\* ServidorCorreo.enviar of message m on server s: [cs, h, err]
enviar(s, ms, cs, h, m) ==
    LET us == usuarios[s]
        cs1 == IF ms[m].remitente \in DOMAIN us
               THEN LET r == obtener_carpeta(cs, objUsuarios[us[ms[m].remitente]].raiz, Enviados)
                    IN agregar_mensaje(r.cs, r.sub, m)
               ELSE cs
        q == agregar(h, ms, m)
    IN IF q.err # "" THEN [cs |-> cs1, h |-> q.h, err |-> q.err]
       ELSE IF ms[m].destinatario \in DOMAIN us
            THEN [cs |-> aplicar_filtros(cs1, filtros[s], ms, m,
                                         objUsuarios[us[ms[m].destinatario]].raiz),
                  h |-> q.h, err |-> ""]
            ELSE [cs |-> cs1, h |-> q.h, err |-> ""]

\* listar that looks the folder up, and creates it, under the user's Entrada
listar_bajo_entrada(us, cs, email, carpeta) ==
    LET u == obtener_usuario(us, email)
    IN IF u = 0 THEN [cs |-> cs, err |-> "ValueError", ret |-> <<>>]
       ELSE LET r == obtener_carpeta(cs, obtener_subcarpeta(cs, objUsuarios[u].raiz, Entrada), carpeta)
            IN [cs |-> r.cs, err |-> "", ret |-> r.cs[r.sub].mensajes]

\* ServidorCorreo.listar: [cs, err, ret]; the folder is created when absent
listar(us, cs, email, carpeta) ==
    LET u == obtener_usuario(us, email)
    IN IF u = 0 THEN [cs |-> cs, err |-> "ValueError", ret |-> <<>>]
       ELSE LET r == obtener_carpeta(cs, objUsuarios[u].raiz, carpeta)
            IN [cs |-> r.cs, err |-> "", ret |-> r.cs[r.sub].mensajes]

\* recibir that reads Enviados instead of Entrada
recibir_de_enviados(us, cs, email) ==
    LET u == obtener_usuario(us, email)
    IN IF u = 0 THEN [cs |-> cs, err |-> "ValueError", ret |-> <<>>]
       ELSE LET r == obtener_carpeta(cs, objUsuarios[u].raiz, Enviados)
            IN [cs |-> r.cs, err |-> "", ret |-> r.cs[r.sub].mensajes]

\* ServidorCorreo.recibir: [cs, err, ret]
recibir(us, cs, email) ==
    LET u == obtener_usuario(us, email)
    IN IF u = 0 THEN [cs |-> cs, err |-> "ValueError", ret |-> <<>>]
       ELSE LET r == obtener_carpeta(cs, objUsuarios[u].raiz, Entrada)
            IN [cs |-> r.cs, err |-> "", ret |-> r.cs[r.sub].mensajes]

\* the loop of procesar_mensajes_prioritarios: [h, err, impresos]
RECURSIVE drenar(_, _)
drenar(h, impresos) ==
    IF esta_vacia(h) THEN [h |-> h, err |-> "", impresos |-> impresos]
    ELSE LET r == procesar(h)
         IN IF r.err # "" THEN [h |-> r.h, err |-> r.err, impresos |-> impresos]
            ELSE drenar(r.h, Append(impresos, r.m))

-----------------------------------------------------------------------------
(* RedServidores: _conexiones is a dict name -> list of names, a function   *)
(* whose domain is the set of keys.                                         *)

\* dict.setdefault(k, []).append(x)
SetDefaultAppend(con, k, x) ==
    IF k \in DOMAIN con THEN [con EXCEPT ![k] = Append(@, x)]
    ELSE [n \in DOMAIN con \cup {k} |-> IF n = k THEN <<x>> ELSE con[n]]

\* dict.setdefault(k, [])
SetDefault(con, k) ==
    IF k \in DOMAIN con THEN con
    ELSE [n \in DOMAIN con \cup {k} |-> IF n = k THEN <<>> ELSE con[n]]

\* conectar that enters the edge in the list of the first name only
conectar_un_sentido(con, x, y) == SetDefaultAppend(con, x, y)

\* conectar that puts the new entries in front of the lists
conectar_al_frente(con, x, y) ==
    LET Frente(c, k, v) ==
            IF k \in DOMAIN c THEN [c EXCEPT ![k] = <<v>> \o @]
            ELSE [n \in DOMAIN c \cup {k} |-> IF n = k THEN <<v>> ELSE c[n]]
    IN Frente(Frente(con, x, y), y, x)

\* RedServidores.conectar
conectar(con, x, y) == SetDefaultAppend(SetDefaultAppend(con, x, y), y, x)

\* self._conexiones.get(actual, [])
vecinos(con, actual) == IF actual \in DOMAIN con THEN con[actual] ELSE <<>>

\* the loop of bfs over the list `cola` of (actual, camino): [hay, camino]
RECURSIVE bfs_bucle(_, _, _, _)
bfs_bucle(con, destino, visitados, q) ==
    IF q = <<>> THEN [hay |-> FALSE, camino |-> <<>>]
    ELSE LET actual == q[1][1]
             camino == q[1][2]
             resto == Tail(q)
         IN IF actual = destino THEN [hay |-> TRUE, camino |-> camino]
            ELSE IF actual \in visitados THEN bfs_bucle(con, destino, visitados, resto)
            ELSE LET v2 == visitados \cup {actual}
                     NoVisitado(vecino) == vecino \notin v2
                     nuevos == SelectSeq(vecinos(con, actual), NoVisitado)
                 IN bfs_bucle(con, destino, v2,
                              resto \o [i \in 1..Len(nuevos) |->
                                           <<nuevos[i], Append(camino, nuevos[i])>>])

\* the loop of bfs with cola.pop() in place of cola.pop(0)
RECURSIVE bfs_bucle_pila(_, _, _, _)
bfs_bucle_pila(con, destino, visitados, q) ==
    IF q = <<>> THEN [hay |-> FALSE, camino |-> <<>>]
    ELSE LET actual == q[Len(q)][1]
             camino == q[Len(q)][2]
             resto == SubSeq(q, 1, Len(q) - 1)
         IN IF actual = destino THEN [hay |-> TRUE, camino |-> camino]
            ELSE IF actual \in visitados THEN bfs_bucle_pila(con, destino, visitados, resto)
            ELSE LET v2 == visitados \cup {actual}
                     NoVisitado(vecino) == vecino \notin v2
                     nuevos == SelectSeq(vecinos(con, actual), NoVisitado)
                 IN bfs_bucle_pila(con, destino, v2,
                                   resto \o [i \in 1..Len(nuevos) |->
                                                <<nuevos[i], Append(camino, nuevos[i])>>])

bfs_pila(con, origen, destino) ==
    bfs_bucle_pila(con, destino, {}, << <<origen, <<origen>> >> >>)

\* RedServidores.bfs: [hay, camino]; hay = FALSE is None
bfs(con, origen, destino) ==
    bfs_bucle(con, destino, {}, << <<origen, <<origen>> >> >>)

\* dfs where every call works on a copy of the visited set
RECURSIVE dfs_rec_copia(_, _, _)
dfs_rec_copia(con, origen, visitados) ==
    LET vs == vecinos(con, origen)
        v0 == visitados \cup {origen}
        RECURSIVE bucle(_, _)
        bucle(i, resultado) ==
            IF i > Len(vs) THEN [resultado |-> resultado, visitados |-> v0]
            ELSE IF vs[i] \notin v0
                 THEN bucle(i + 1, resultado \o dfs_rec_copia(con, vs[i], v0).resultado)
                 ELSE bucle(i + 1, resultado)
    IN bucle(1, <<origen>>)

\* RedServidores.dfs with the visited set given: [resultado, visitados]; the
\* set is one object shared by all the recursive calls
RECURSIVE dfs_rec(_, _, _)
dfs_rec(con, origen, visitados) ==
    LET vs == vecinos(con, origen)
        RECURSIVE bucle(_, _, _)
        bucle(i, vis, resultado) ==
            IF i > Len(vs) THEN [resultado |-> resultado, visitados |-> vis]
            ELSE IF vs[i] \notin vis
                 THEN LET r == dfs_rec(con, vs[i], vis)
                      IN bucle(i + 1, r.visitados, resultado \o r.resultado)
                 ELSE bucle(i + 1, vis, resultado)
    IN bucle(1, visitados \cup {origen}, <<origen>>)

\* RedServidores.dfs(origen)
dfs(con, origen) == dfs_rec(con, origen, {}).resultado

SinRuta == "No hay ruta entre servidores."
RutaElegida == "Ruta elegida (BFS):"
DestinoInexistente == "Servidor destino inexistente."

\* enviar_entre_servidores that resolves the origin in place of the destination
entrega_en_origen(ms, cs, m, nombre_origen, nombre_destino) ==
    LET ruta == bfs(conexiones, nombre_origen, nombre_destino)
    IN IF ~ruta.hay
       THEN [cs |-> cs, cola |-> cola, err |-> "", salida |-> <<SinRuta>>]
       ELSE IF nombre_origen \notin servidores
            THEN [cs |-> cs, cola |-> cola, err |-> "",
                  salida |-> <<RutaElegida, DestinoInexistente>>]
            ELSE LET r == enviar(nombre_origen, ms, cs, cola[nombre_origen], m)
                 IN [cs |-> r.cs, cola |-> [cola EXCEPT ![nombre_origen] = r.h],
                     err |-> r.err, salida |-> <<RutaElegida>>]

\* enviar_entre_servidores without the check of the route
entrega_sin_ruta(ms, cs, m, nombre_origen, nombre_destino) ==
    IF nombre_destino \notin servidores
    THEN [cs |-> cs, cola |-> cola, err |-> "",
          salida |-> <<RutaElegida, DestinoInexistente>>]
    ELSE LET r == enviar(nombre_destino, ms, cs, cola[nombre_destino], m)
         IN [cs |-> r.cs, cola |-> [cola EXCEPT ![nombre_destino] = r.h],
             err |-> r.err, salida |-> <<RutaElegida>>]

\* RedServidores.enviar_entre_servidores of message m: [cs, cola, err, salida]
enviar_entre_servidores(ms, cs, m, nombre_origen, nombre_destino) ==
    LET ruta == bfs(conexiones, nombre_origen, nombre_destino)
    IN IF ~ruta.hay
       THEN [cs |-> cs, cola |-> cola, err |-> "", salida |-> <<SinRuta>>]
       ELSE IF nombre_destino \notin servidores
            THEN [cs |-> cs, cola |-> cola, err |-> "",
                  salida |-> <<RutaElegida, DestinoInexistente>>]
            ELSE LET r == enviar(nombre_destino, ms, cs, cola[nombre_destino], m)
                 IN [cs |-> r.cs, cola |-> [cola EXCEPT ![nombre_destino] = r.h],
                     err |-> r.err, salida |-> <<RutaElegida>>]

-----------------------------------------------------------------------------
(* Initial states *)

Local == "Servidor_Local"

\* main(): one server, Luis and Ana created and registered on it
InitMain ==
    LET u1 == Usuario(<<>>)
        u2 == Usuario(u1.cs)
    IN /\ mensajes = <<>>
       /\ carpetas = u2.cs
       /\ objUsuarios = << [email |-> LUIS, raiz |-> u1.raiz],
                           [email |-> ANA, raiz |-> u2.raiz] >>
       /\ usuarios = [s \in {Local} |-> (LUIS :> 1) @@ (ANA :> 2)]
       /\ filtros = [s \in {Local} |-> FiltrosIniciales]
       /\ cola = [s \in {Local} |-> <<>>]
       /\ servidores = {}
       /\ conexiones = <<>>
       /\ llamada = [op |-> "main", args |-> <<>>, err |-> "", ret |-> <<>>]

ServidorA == "Servidor_A"
ServidorB == "Servidor_B"
ServidorC == "Servidor_C"
Nombres == {ServidorA, ServidorB, ServidorC}

LUIS_A == <<"l","u","i","s","@","a",".","c","o","m">>
ANA_B == <<"a","n","a","@","b",".","c","o","m">>

\* demo_red_servidores(): three servers, Luis registered on A and Ana on B,
\* and an empty RedServidores
InitRed ==
    LET u1 == Usuario(<<>>)
        u2 == Usuario(u1.cs)
    IN /\ mensajes = <<>>
       /\ carpetas = u2.cs
       /\ objUsuarios = << [email |-> LUIS_A, raiz |-> u1.raiz],
                           [email |-> ANA_B, raiz |-> u2.raiz] >>
       /\ usuarios = [s \in Nombres |->
                        CASE s = ServidorA -> (LUIS_A :> 1)
                          [] s = ServidorB -> (ANA_B :> 2)
                          [] OTHER -> <<>>]
       /\ filtros = [s \in Nombres |-> FiltrosIniciales]
       /\ cola = [s \in Nombres |-> <<>>]
       /\ servidores = {}
       /\ conexiones = <<>>
       /\ llamada = [op |-> "demo_red_servidores", args |-> <<>>, err |-> "", ret |-> <<>>]

-----------------------------------------------------------------------------
(* Operations *)

\* Usuario.enviar_mensaje / Mensaje(...) followed by ServidorCorreo.enviar:
\* an empty recipient fails in the constructor and creates nothing.
EnviarMensaje(s, remitente, destinatario, asunto, cuerpo, prioridad, max) ==
    /\ Len(mensajes) < max
    /\ IF destinatario = <<>>
       THEN /\ llamada' = [op |-> "enviar", args |-> <<s, 0>>, err |-> "ValueError",
                           ret |-> <<>>]
            /\ UNCHANGED <<mensajes, carpetas, cola>>
       ELSE LET m == Len(mensajes) + 1
                ms == Append(mensajes, Mensaje(remitente, destinatario, asunto, cuerpo, prioridad))
                r == enviar(s, ms, carpetas, cola[s], m)
            IN /\ mensajes' = ms
               /\ carpetas' = r.cs
               /\ cola' = [cola EXCEPT ![s] = r.h]
               /\ llamada' = [op |-> "enviar", args |-> <<s, m>>, err |-> r.err, ret |-> <<>>]
    /\ UNCHANGED <<objUsuarios, usuarios, filtros, servidores, conexiones>>

\* ServidorCorreo.procesar_mensajes_prioritarios; ret is what was printed
ProcesarMensajesPrioritarios(s) ==
    LET r == drenar(cola[s], <<>>)
    IN /\ cola' = [cola EXCEPT ![s] = r.h]
       /\ llamada' = [op |-> "procesar_mensajes_prioritarios", args |-> <<s, cola[s]>>,
                      err |-> r.err, ret |-> r.impresos]
       /\ UNCHANGED <<mensajes, carpetas, objUsuarios, usuarios, filtros,
                      servidores, conexiones>>

\* ServidorCorreo.agregar_filtro
AgregarFiltro(s, palabra_clave, carpeta_destino) ==
    /\ filtros' = [filtros EXCEPT ![s] = agregar_filtro(@, palabra_clave, carpeta_destino)]
    /\ llamada' = [op |-> "agregar_filtro", args |-> <<s, palabra_clave, carpeta_destino>>,
                   err |-> "", ret |-> <<>>]
    /\ UNCHANGED <<mensajes, carpetas, objUsuarios, usuarios, cola, servidores, conexiones>>

\* Carpeta.crear_subcarpeta on folder f
CrearSubcarpeta(f, nombre, max) ==
    /\ Len(carpetas) < max
    /\ LET r == crear_subcarpeta(carpetas, f, nombre)
       IN /\ carpetas' = r.cs
          /\ llamada' = [op |-> "crear_subcarpeta", args |-> <<f, nombre>>,
                         err |-> r.err, ret |-> r.nueva]
    /\ UNCHANGED <<mensajes, objUsuarios, usuarios, filtros, cola, servidores, conexiones>>

\* SistemaCorreo.mover_mensaje
MoverMensaje(carpeta_origen, indice, carpeta_destino) ==
    /\ LET r == mover_mensaje(carpetas, carpeta_origen, indice, carpeta_destino)
       IN /\ carpetas' = r.cs
          /\ llamada' = [op |-> "mover_mensaje",
                         args |-> <<carpeta_origen, indice, carpeta_destino>>,
                         err |-> r.err, ret |-> <<>>]
    /\ UNCHANGED <<mensajes, objUsuarios, usuarios, filtros, cola, servidores, conexiones>>

\* SistemaCorreo.obtener_por_ruta on the tree rooted at carpeta_raiz
ObtenerPorRuta(carpeta_raiz, ruta) ==
    /\ LET r == obtener_por_ruta(carpetas, carpeta_raiz, ruta)
       IN llamada' = [op |-> "obtener_por_ruta", args |-> <<carpeta_raiz, ruta>>,
                      err |-> r.err, ret |-> <<r.carpeta, r.p>>]
    /\ UNCHANGED <<mensajes, carpetas, objUsuarios, usuarios, filtros, cola,
                   servidores, conexiones>>

\* SistemaCorreo.buscar_mensajes_recursivo on the tree rooted at carpeta_raiz
BuscarMensajesRecursivo(carpeta_raiz, texto) ==
    /\ llamada' = [op |-> "buscar_mensajes_recursivo", args |-> <<carpeta_raiz, texto>>,
                   err |-> "",
                   ret |-> buscar_mensajes_recursivo(carpetas, mensajes, carpeta_raiz, texto)]
    /\ UNCHANGED <<mensajes, carpetas, objUsuarios, usuarios, filtros, cola,
                   servidores, conexiones>>

\* Usuario(nombre, email): a new user with a folder tree of its own
CrearUsuario(email, max) ==
    /\ Len(objUsuarios) < max
    /\ LET u == Usuario(carpetas)
       IN /\ carpetas' = u.cs
          /\ objUsuarios' = Append(objUsuarios, [email |-> email, raiz |-> u.raiz])
          /\ llamada' = [op |-> "Usuario", args |-> <<email>>, err |-> "",
                         ret |-> Len(objUsuarios) + 1]
    /\ UNCHANGED <<mensajes, usuarios, filtros, cola, servidores, conexiones>>

\* ServidorCorreo.registrar_usuario of the Usuario object u on server s
RegistrarUsuario(s, u) ==
    /\ LET r == registrar_usuario(usuarios[s], u, objUsuarios[u].email)
       IN /\ usuarios' = [usuarios EXCEPT ![s] = r.us]
          /\ llamada' = [op |-> "registrar_usuario", args |-> <<s, u>>, err |-> r.err,
                         ret |-> <<>>]
    /\ UNCHANGED <<mensajes, carpetas, objUsuarios, filtros, cola, servidores, conexiones>>

\* a new Mensaje handed to ColaPrioridades.agregar of the queue of server s
Agregar(s, prioridad, max) ==
    /\ Len(mensajes) < max
    /\ LET m == Len(mensajes) + 1
           ms == Append(mensajes, Mensaje(LUIS, OTRO, Hola, <<>>, prioridad))
           r == agregar(cola[s], ms, m)
       IN /\ mensajes' = ms
          /\ cola' = [cola EXCEPT ![s] = r.h]
          /\ llamada' = [op |-> "agregar", args |-> <<s, m>>, err |-> r.err, ret |-> <<>>]
    /\ UNCHANGED <<carpetas, objUsuarios, usuarios, filtros, servidores, conexiones>>

\* ColaPrioridades.procesar on the queue of server s; ret is the message, 0 for None
Procesar(s) ==
    /\ LET r == procesar(cola[s])
       IN /\ cola' = [cola EXCEPT ![s] = r.h]
          /\ llamada' = [op |-> "procesar", args |-> <<s>>, err |-> r.err, ret |-> r.m]
    /\ UNCHANGED <<mensajes, carpetas, objUsuarios, usuarios, filtros, servidores,
                   conexiones>>

\* Usuario.redactar of the Usuario object u; ret is the new message, 0 when
\* the constructor raised
Redactar(u, destinatario, asunto, cuerpo, prioridad, max) ==
    /\ Len(mensajes) < max
    /\ LET r == redactar(mensajes, objUsuarios[u].email, destinatario, asunto, cuerpo, prioridad)
       IN /\ mensajes' = r.ms
          /\ llamada' = [op |-> "redactar",
                         args |-> <<u, destinatario, asunto, cuerpo, prioridad>>,
                         err |-> r.err, ret |-> r.m]
    /\ UNCHANGED <<carpetas, objUsuarios, usuarios, filtros, cola, servidores, conexiones>>

\* ServidorCorreo.enviar of the existing message m on server s
Enviar(s, m, max) ==
    /\ Len(cola[s]) < max
    /\ \A f \in 1..Len(carpetas) : Len(carpetas[f].mensajes) < max
    /\ LET r == enviar(s, mensajes, carpetas, cola[s], m)
       IN /\ carpetas' = r.cs
          /\ cola' = [cola EXCEPT ![s] = r.h]
          /\ llamada' = [op |-> "enviar", args |-> <<s, m>>, err |-> r.err, ret |-> <<>>]
    /\ UNCHANGED <<mensajes, objUsuarios, usuarios, filtros, servidores, conexiones>>

\* Usuario.obtener_carpeta of the Usuario object u
ObtenerCarpeta(u, nombre) ==
    /\ LET r == obtener_carpeta(carpetas, objUsuarios[u].raiz, nombre)
       IN /\ carpetas' = r.cs
          /\ llamada' = [op |-> "obtener_carpeta", args |-> <<u, nombre>>, err |-> "",
                         ret |-> r.sub]
    /\ UNCHANGED <<mensajes, objUsuarios, usuarios, filtros, cola, servidores, conexiones>>

\* ServidorCorreo.recibir
Recibir(s, email) ==
    /\ LET r == recibir(usuarios[s], carpetas, email)
       IN /\ carpetas' = r.cs
          /\ llamada' = [op |-> "recibir", args |-> <<s, email>>, err |-> r.err,
                         ret |-> r.ret]
    /\ UNCHANGED <<mensajes, objUsuarios, usuarios, filtros, cola, servidores, conexiones>>

\* ServidorCorreo.listar
Listar(s, email, carpeta) ==
    /\ LET r == listar(usuarios[s], carpetas, email, carpeta)
       IN /\ carpetas' = r.cs
          /\ llamada' = [op |-> "listar", args |-> <<s, email, carpeta>>, err |-> r.err,
                         ret |-> r.ret]
    /\ UNCHANGED <<mensajes, objUsuarios, usuarios, filtros, cola, servidores, conexiones>>

\* RedServidores.agregar_servidor
AgregarServidor(nombre) ==
    /\ servidores' = servidores \cup {nombre}
    /\ conexiones' = SetDefault(conexiones, nombre)
    /\ llamada' = [op |-> "agregar_servidor", args |-> <<nombre>>, err |-> "", ret |-> <<>>]
    /\ UNCHANGED <<mensajes, carpetas, objUsuarios, usuarios, filtros, cola>>

\* the number of conectar calls made so far
Aristas(con) ==
    LET RECURSIVE Suma(_)
        Suma(S) == IF S = {} THEN 0
                   ELSE LET n == CHOOSE x \in S : TRUE
                        IN Len(con[n]) + Suma(S \ {n})
    IN Suma(DOMAIN con) \div 2

\* RedServidores.conectar
Conectar(x, y) ==
    /\ Aristas(conexiones) < MaxConexiones
    /\ conexiones' = conectar(conexiones, x, y)
    /\ llamada' = [op |-> "conectar", args |-> <<x, y>>, err |-> "", ret |-> <<>>]
    /\ UNCHANGED <<mensajes, carpetas, objUsuarios, usuarios, filtros, cola, servidores>>

\* RedServidores.bfs
Bfs(origen, destino) ==
    /\ llamada' = [op |-> "bfs", args |-> <<origen, destino>>, err |-> "",
                   ret |-> bfs(conexiones, origen, destino)]
    /\ UNCHANGED <<mensajes, carpetas, objUsuarios, usuarios, filtros, cola,
                   servidores, conexiones>>

\* RedServidores.dfs
Dfs(origen) ==
    /\ llamada' = [op |-> "dfs", args |-> <<origen>>, err |-> "",
                   ret |-> dfs(conexiones, origen)]
    /\ UNCHANGED <<mensajes, carpetas, objUsuarios, usuarios, filtros, cola,
                   servidores, conexiones>>

\* a message composed by the caller (as in demo_red_servidores) and handed to
\* RedServidores.enviar_entre_servidores
EnviarEntreServidores(remitente, destinatario, asunto, cuerpo, prioridad, nombre_origen, nombre_destino) ==
    /\ Len(mensajes) < MaxMensajesRed
    /\ LET m == Len(mensajes) + 1
           ms == Append(mensajes, Mensaje(remitente, destinatario, asunto, cuerpo, prioridad))
           r == enviar_entre_servidores(ms, carpetas, m, nombre_origen, nombre_destino)
       IN /\ mensajes' = ms
          /\ carpetas' = r.cs
          /\ cola' = r.cola
          /\ llamada' = [op |-> "enviar_entre_servidores",
                         args |-> <<m, nombre_origen, nombre_destino>>,
                         err |-> r.err, ret |-> r.salida]
    /\ UNCHANGED <<objUsuarios, usuarios, filtros, servidores, conexiones>>

-----------------------------------------------------------------------------
(* The priority queue of one server: messages of every priority to an       *)
(* unregistered recipient, and the priority drain.                          *)

NextCola ==
    \/ \E p \in Prioridades :
          EnviarMensaje(Local, LUIS, OTRO, Hola, <<>>, p, MaxMensajesCola)
    \/ ProcesarMensajesPrioritarios(Local)

SpecCola == InitMain /\ [][NextCola]_vars

-----------------------------------------------------------------------------
(* One server with registered and unregistered senders and recipients.      *)

NextEnvio ==
    \/ \E remitente \in {LUIS, OTRO}, destinatario \in {ANA, OTRO},
          p \in {"Alta", "Media"} :
          EnviarMensaje(Local, remitente, destinatario, Hola, <<>>, p, MaxMensajes)
    \/ ProcesarMensajesPrioritarios(Local)

SpecEnvio == InitMain /\ [][NextEnvio]_vars

-----------------------------------------------------------------------------
(* Filters: mail to a registered recipient (another user or the sender),    *)
(* with keywords in the subject or the body, and filters added or           *)
(* overwritten in between.                                                  *)

OFERTA == <<"O","F","E","R","T","A">>
Varios == <<"V","a","r","i","o","s">>

NextFiltros ==
    \/ \E destinatario \in {ANA, LUIS}, asunto \in {Hola, OFERTA},
          cuerpo \in {<<>>, urgente}, p \in {"Alta", "Media"} :
          EnviarMensaje(Local, LUIS, destinatario, asunto, cuerpo, p, MaxMensajesFiltros)
    \/ \E palabra \in {Hola, oferta}, carpeta \in {Enviados, Varios} :
          AgregarFiltro(Local, palabra, carpeta)

SpecFiltros == InitMain /\ [][NextFiltros]_vars

-----------------------------------------------------------------------------
(* The folder tree of Luis (the SistemaCorreo of main): mail he sends to    *)
(* himself, subfolders, moves and path resolution.                          *)

RaizLuis == 1

a == <<"a">>
Vacia == <<>>

Rutas ==
    { Vacia, <<"/">>, <<"/", "/">>, Entrada, <<"/">> \o Entrada \o <<"/">>,
      Entrada \o <<"/">> \o a, <<"/", "/">> \o Entrada \o <<"/">> \o a \o <<"/">>,
      Entrada \o <<"/", "/">> \o a, a, a \o <<"/">> \o a, <<"/">> \o a \o <<"/", "/">>,
      Entrada \o <<"/">> \o a \o <<"/">> \o a }

\* the folders of the tree rooted at raiz
RECURSIVE Arbol(_, _)
Arbol(cs, raiz) ==
    {raiz} \cup UNION {Arbol(cs, cs[raiz].subcarpetas[i].v) :
                          i \in 1..Len(cs[raiz].subcarpetas)}

NextMover ==
    \/ EnviarMensaje(Local, LUIS, LUIS, Hola, <<>>, "Media", MaxMensajesCarpetas)
    \/ AgregarFiltro(Local, Hola, Enviados)
    \/ \E o, d \in Arbol(carpetas, RaizLuis) :
          \E i \in -1..Len(carpetas[o].mensajes) : MoverMensaje(o, i, d)

SpecMover == InitMain /\ [][NextMover]_vars

NextRutas ==
    \/ \E f \in Arbol(carpetas, RaizLuis), nombre \in {a, Vacia, Entrada} :
          CrearSubcarpeta(f, nombre, 8 + MaxSubcarpetas)
    \/ \E ruta \in Rutas : ObtenerPorRuta(RaizLuis, ruta)

SpecRutas == InitMain /\ [][NextRutas]_vars

-----------------------------------------------------------------------------
(* Search in the folder tree of Luis: mail from Luis and from a stranger to *)
(* Luis, a subfolder anywhere in the tree, moves, and the recursive search. *)

Textos == { <<"h","O","L">>, <<"L","u","I","s">>, <<>> }

\* the mail of the search: a stranger to Luis, Luis to Ana, Luis to himself
Correo ==
    { [de |-> OTRO, para |-> LUIS, asunto |-> Hola, prioridad |-> "Alta"],
      [de |-> LUIS, para |-> ANA, asunto |-> OFERTA, prioridad |-> "Media"],
      [de |-> LUIS, para |-> LUIS, asunto |-> Hola, prioridad |-> "Baja"] }

NextBuscar ==
    \/ \E c \in Correo :
          EnviarMensaje(Local, c.de, c.para, c.asunto, <<>>, c.prioridad, MaxMensajesBuscar)
    \/ CrearSubcarpeta(obtener_subcarpeta(carpetas, RaizLuis, Entrada), a,
                       8 + MaxSubcarpetasBuscar)
    \/ \E o, d \in Arbol(carpetas, RaizLuis) :
          /\ o # RaizLuis
          /\ o < d \/ (d = RaizLuis /\ carpetas[o].nombre = Entrada)
          /\ \E i \in 0..(Len(carpetas[o].mensajes) - 1) : MoverMensaje(o, i, d)
    \/ \E texto \in Textos : BuscarMensajesRecursivo(RaizLuis, texto)

SpecBuscar == InitMain /\ [][NextBuscar]_vars

-----------------------------------------------------------------------------

(* Users of one server: users created and registered, mail between them,    *)
(* and the folders read through the server.                                 *)

NextUsuarios ==
    \/ /\ Len(carpetas) = 4 * Len(objUsuarios)
       /\ \E email \in {LUIS, OTRO} : CrearUsuario(email, MaxUsuarios)
    \/ \E u \in 1..Len(objUsuarios) : RegistrarUsuario(Local, u)
    \/ \E destinatario \in {ANA, OTRO}, p \in {"Alta", "Media"} :
          EnviarMensaje(Local, LUIS, destinatario, Hola, <<>>, p, MaxMensajesUsuarios)
    \/ \E email \in {ANA, OTRO} : Recibir(Local, email)
    \/ \E email \in {ANA, OTRO}, carpeta \in {Entrada, Varios} :
          Listar(Local, email, carpeta)

SpecUsuarios == InitMain /\ [][NextUsuarios]_vars

-----------------------------------------------------------------------------

(* The priority queue alone: add and pop in every interleaving.             *)

NextColaPop ==
    \/ \E p \in Prioridades : Agregar(Local, p, MaxMensajesPop)
    \/ Procesar(Local)

SpecColaPop == InitMain /\ [][NextColaPop]_vars

-----------------------------------------------------------------------------

(* Every operation that touches a folder tree: users created, subfolders    *)
(* created anywhere, folders fetched by name, mail sent, folders listed and *)
(* messages moved.                                                          *)

NextArbol ==
    \/ /\ Len(carpetas) = 4 * Len(objUsuarios)
       /\ CrearUsuario(OTRO, MaxUsuariosArbol)
    \/ \E f \in Arbol(carpetas, RaizLuis) :
          /\ Cardinality(Arbol(carpetas, RaizLuis)) < 4 + MaxSubcarpetasArbol
          /\ CrearSubcarpeta(f, IF f = RaizLuis THEN Entrada ELSE a, Len(carpetas) + 1)
    \/ ObtenerCarpeta(Len(objUsuarios), Varios)
    \/ EnviarMensaje(Local, LUIS, ANA, OFERTA, <<>>, "Media", MaxMensajesArbol)
    \/ \E email \in {ANA, OTRO} : Listar(Local, email, Varios)
    \/ \E o, d \in Arbol(carpetas, RaizLuis) :
          /\ o < d
          /\ \E i \in 0..(Len(carpetas[o].mensajes) - 1) : MoverMensaje(o, i, d)

SpecArbol == InitMain /\ [][NextArbol]_vars

-----------------------------------------------------------------------------

(* Messages drafted by Luis with an empty or a non-empty recipient and with *)
(* priority strings inside and outside the three values, then sent (once or *)
(* again) and taken from the queue.  No message is drafted with "Media".    *)

PrioridadesDadas == {"Alta", "alta", ""}

NextMensaje ==
    \/ \E destinatario \in {Vacia, ANA, OTRO}, prioridad \in PrioridadesDadas :
          Redactar(1, destinatario, Hola, <<>>, prioridad, MaxMensajesRedactar)
    \/ \E m \in 1..Len(mensajes) : Enviar(Local, m, MaxEnvios)
    \/ Procesar(Local)

SpecMensaje == InitMain /\ [][NextMensaje]_vars

-----------------------------------------------------------------------------

(* The Enviados folders of one server: senders and recipients that are      *)
(* registered, not registered, or registered later, equal priorities, and a *)
(* filter that routes to Enviados.                                          *)

NextEnviados ==
    \/ \E remitente \in {LUIS, OTRO}, destinatario \in {LUIS, ANA, OTRO},
          p \in {"Alta", "Media"} :
          EnviarMensaje(Local, remitente, destinatario, Hola, <<>>, p, MaxMensajesEnviados)
    \/ AgregarFiltro(Local, Hola, Enviados)
    \/ /\ Len(carpetas) = 4 * Len(objUsuarios)
       /\ CrearUsuario(OTRO, MaxUsuariosEnviados)
    \/ \E u \in 3..Len(objUsuarios) : RegistrarUsuario(Local, u)

SpecEnviados == InitMain /\ [][NextEnviados]_vars

-----------------------------------------------------------------------------

(* Folders read through the server: mail for Ana and Luis, folders listed   *)
(* by names that exist at the top level, exist only deeper, are empty or do *)
(* not exist, for registered and unregistered emails.                       *)

NextListar ==
    \/ \E destinatario \in {ANA, LUIS} :
          EnviarMensaje(Local, LUIS, destinatario, Hola, <<>>, "Media", MaxMensajesListar)
    \/ CrearSubcarpeta(obtener_subcarpeta(carpetas, objUsuarios[2].raiz, Entrada), Varios, MaxCarpetasListar)
    \/ \E email \in {LUIS, ANA, OTRO} : Recibir(Local, email)
    \/ \E email \in {LUIS, ANA, OTRO}, carpeta \in {Entrada, Varios, Vacia} :
          /\ Len(carpetas) < MaxCarpetasListar
          /\ Listar(Local, email, carpeta)

SpecListar == InitMain /\ [][NextListar]_vars

-----------------------------------------------------------------------------

(* The graph of demo_red_servidores: servers added, names connected and     *)
(* routes searched.                                                         *)

NextGrafo ==
    \/ \E n \in Nombres : AgregarServidor(n)
    \/ \E x, y \in Nombres : Conectar(x, y)
    \/ \E o, d \in Nombres : Bfs(o, d)
    \/ \E o \in Nombres : Dfs(o)

SpecGrafo == InitRed /\ [][NextGrafo]_vars

-----------------------------------------------------------------------------
(* The network of demo_red_servidores: servers added, names connected and   *)
(* mail delivered across servers.                                           *)

NextRed ==
    \/ \E n \in Nombres : AgregarServidor(n)
    \/ \E x, y \in Nombres : Conectar(x, y)
    \/ \E o, d \in Nombres :
          EnviarEntreServidores(LUIS_A, ANA_B, urgente, <<>>, "Alta", o, d)

SpecRed == InitRed /\ [][NextRed]_vars

-----------------------------------------------------------------------------
(* Properties *)

EsEnvio(c) == c.op = "enviar" /\ c.args[2] # 0

\* the number of entries of heap h that hold message m
Cuenta(h, m) == Cardinality({i \in 1..Len(h) : h[i][2] = m})

\* C1: every call of processPriorityMessages consumes messages in
\* non-decreasing priority ordinal: no message is consumed before one of a
\* smaller ordinal.
C1_DrenaEnOrden ==
    llamada.op = "procesar_mensajes_prioritarios" =>
        \A i, j \in 1..Len(llamada.ret) :
            i < j => valor(mensajes[llamada.ret[i]].prioridad)
                        <= valor(mensajes[llamada.ret[j]].prioridad)

\* C2: send never fails when the recipient is not registered on the server,
\* whatever the priority queue already holds.
C2_EnviarNoFalla ==
    (EsEnvio(llamada)
        /\ mensajes[llamada.args[2]].destinatario \notin DOMAIN usuarios[llamada.args[1]])
    => llamada.err = ""

\* C3: every send(m) adds m to the server's priority queue exactly once and
\* keeps every message that was queued, whoever the sender and the recipient
\* are and whatever the queue held.
C3_EnviarEncola ==
    [][EsEnvio(llamada') =>
          LET s == llamada'.args[1]
              m == llamada'.args[2]
          IN /\ Cuenta(cola'[s], m) = Cuenta(cola[s], m) + 1
             /\ \A x \in 1..Len(mensajes) :
                   x # m => Cuenta(cola'[s], x) = Cuenta(cola[s], x)
             /\ Len(cola'[s]) = Len(cola[s]) + 1
             /\ \A t \in DOMAIN cola : t # s => cola'[t] = cola[t]]_vars

\* C3 witness: a send from an unregistered sender to an unregistered
\* recipient that failed in the heap, with the message queued all the same
C3_Witness ==
    /\ EsEnvio(llamada)
    /\ llamada.err = "TypeError"
    /\ mensajes[llamada.args[2]].remitente \notin DOMAIN usuarios[Local]
    /\ mensajes[llamada.args[2]].destinatario \notin DOMAIN usuarios[Local]
    /\ Cuenta(cola[Local], llamada.args[2]) = 1
    /\ Len(cola[Local]) = 3

\* the number of times m occurs in the list l
Veces(l, m) == Cardinality({i \in 1..Len(l) : l[i] = m})

\* l repeated n times
RECURSIVE Repetir(_, _)
Repetir(l, n) == IF n = 0 THEN <<>> ELSE l \o Repetir(l, n - 1)

\* C4: send(m) with a registered recipient appends m to exactly one top-level
\* folder of the recipient: the folder of the first keyword, in the order of
\* the filter table, found in lowercase(subject + " " + body), created under
\* the recipient's root if absent, and Entrada when no keyword is found.  (The
\* sender's copy in Enviados, when the sender is the recipient, is counted
\* apart.)
C4_EntregaPorFiltro ==
    [][(EsEnvio(llamada')
          /\ mensajes'[llamada'.args[2]].destinatario \in DOMAIN usuarios[llamada'.args[1]])
       => LET s == llamada'.args[1]
              m == llamada'.args[2]
              msg == mensajes'[m]
              raiz == objUsuarios[usuarios[s][msg.destinatario]].raiz
              texto == lower(msg.asunto \o Espacio \o msg.cuerpo)
              fs == filtros[s]
              halla(i) == \E j \in 0..(Len(texto) - Len(fs[i].k)) :
                             \A c \in 1..Len(fs[i].k) : texto[j + c] = fs[i].k[c]
              nombre == IF \E i \in 1..Len(fs) : halla(i)
                        THEN fs[CHOOSE i \in 1..Len(fs) :
                                   halla(i) /\ \A j \in 1..(i - 1) : ~halla(j)].v
                        ELSE Entrada
              hijos == carpetas'[raiz].subcarpetas
              copia(k) == IF msg.remitente = msg.destinatario /\ k = Enviados THEN 1 ELSE 0
          IN /\ \E i \in 1..Len(hijos) : hijos[i].k = nombre
             /\ \A i \in 1..Len(hijos) :
                   LET f == hijos[i].v
                       antes == IF f <= Len(carpetas) THEN carpetas[f].mensajes ELSE <<>>
                       n == (IF hijos[i].k = nombre THEN 1 ELSE 0) + copia(hijos[i].k)
                   IN /\ carpetas'[f].mensajes = antes \o Repetir(<<m>>, n)
                      /\ carpetas'[f].padre = raiz]_vars

EsMovimiento(c) == c.op = "mover_mensaje" /\ c.err = ""

\* C5 as stated: after a successful moveMessage(src, i, dst) the message that
\* was at position i is absent from src, it is the last element of dst, and
\* the messages that followed position i in src moved down by one position.
C5_MoverOriginal ==
    [][EsMovimiento(llamada')
       => LET o == llamada'.args[1]
              i == llamada'.args[2]
              d == llamada'.args[3]
              antes == carpetas[o].mensajes
              m == antes[i + 1]
          IN /\ Veces(carpetas'[o].mensajes, m) = 0
             /\ carpetas'[d].mensajes # <<>>
             /\ carpetas'[d].mensajes[Len(carpetas'[d].mensajes)] = m
             /\ \A k \in (i + 2)..Len(antes) : carpetas'[o].mensajes[k - 1] = antes[k]]_vars

\* C5 amended: after a successful moveMessage(src, i, dst) the message that was
\* at position i is the last element of dst, the messages that followed
\* position i in src moved down by one position, and src holds the message
\* once less; it is absent from src when src is not dst and src held it once.
C5_Mover ==
    [][EsMovimiento(llamada')
       => LET o == llamada'.args[1]
              i == llamada'.args[2]
              d == llamada'.args[3]
              antes == carpetas[o].mensajes
              m == antes[i + 1]
          IN /\ carpetas'[d].mensajes # <<>>
             /\ carpetas'[d].mensajes[Len(carpetas'[d].mensajes)] = m
             /\ \A k \in (i + 2)..Len(antes) : carpetas'[o].mensajes[k - 1] = antes[k]
             /\ o # d => /\ Veces(carpetas'[o].mensajes, m) = Veces(antes, m) - 1
                         /\ Len(carpetas'[o].mensajes) = Len(antes) - 1
                         /\ carpetas'[d].mensajes = Append(carpetas[d].mensajes, m)
             /\ (o # d /\ Veces(antes, m) = 1) => Veces(carpetas'[o].mensajes, m) = 0
             /\ o = d => Veces(carpetas'[o].mensajes, m) = Veces(antes, m)]_vars

\* C5 witness: the first of two messages of a folder moved to another folder
C5_Witness ==
    /\ EsMovimiento(llamada)
    /\ llamada.args[1] # llamada.args[3]
    /\ llamada.args[2] = 0
    /\ carpetas[llamada.args[1]].mensajes # <<>>
    /\ carpetas[llamada.args[3]].mensajes # <<>>
    /\ LET l == carpetas[llamada.args[3]].mensajes
       IN Veces(carpetas[llamada.args[1]].mensajes, l[Len(l)]) = 0

\* C6: moveMessage with an index that is negative or not below the number of
\* messages of src fails with IndexError and changes no folder's messages.
C6_IndiceInvalido ==
    [][(llamada'.op = "mover_mensaje"
          /\ (llamada'.args[2] < 0
                \/ llamada'.args[2] >= Len(carpetas[llamada'.args[1]].mensajes)))
       => /\ llamada'.err = "IndexError"
          /\ Len(carpetas') = Len(carpetas)
          /\ \A f \in 1..Len(carpetas) : carpetas'[f].mensajes = carpetas[f].mensajes]_vars

\* C6 witness: index -1 on a folder that holds messages was refused
C6_Witness ==
    /\ llamada.op = "mover_mensaje"
    /\ llamada.err = "IndexError"
    /\ llamada.args[2] = -1
    /\ carpetas[llamada.args[1]].mensajes # <<>>

\* C10: resolvePath returns the folder reached by walking, child by child
\* from the root, the segments that the slashes delimit in the path without
\* its leading and trailing slashes, or fails naming the first segment that
\* is not a child of the folder reached so far; "Entrada" resolves to the
\* Inbox of the root.
C10_ResolverRuta ==
    llamada.op = "obtener_por_ruta" =>
        LET raiz == llamada.args[1]
            ruta == llamada.args[2]
            letras == {i \in 1..Len(ruta) : ruta[i] # "/"}
            t == IF letras = {} THEN <<>>
                 ELSE SubSeq(ruta, CHOOSE i \in letras : \A j \in letras : i <= j,
                                   CHOOSE i \in letras : \A j \in letras : i >= j)
            cortes == {i \in 1..Len(t) : t[i] = "/"}
            n == Cardinality(cortes) + 1
            corte(k) == IF k = 0 THEN 0
                        ELSE IF k = n THEN Len(t) + 1
                        ELSE CHOOSE i \in cortes : Cardinality({j \in cortes : j < i}) = k - 1
            seg(k) == SubSeq(t, corte(k - 1) + 1, corte(k) - 1)
            hijo(f, nombre) ==
                LET d == carpetas[f].subcarpetas
                IN IF \E i \in 1..Len(d) : d[i].k = nombre
                   THEN d[CHOOSE i \in 1..Len(d) : d[i].k = nombre].v
                   ELSE 0
            alcanzada[k \in 0..n] ==
                IF k = 0 THEN raiz
                ELSE IF alcanzada[k - 1] = 0 THEN 0
                ELSE hijo(alcanzada[k - 1], seg(k))
        IN /\ IF alcanzada[n] # 0
              THEN llamada.err = "" /\ llamada.ret[1] = alcanzada[n]
              ELSE /\ llamada.err = "ValueError"
                   /\ llamada.ret[2] =
                         seg(CHOOSE k \in 1..n : alcanzada[k] = 0 /\ alcanzada[k - 1] # 0)
           /\ ruta = Entrada =>
                 /\ llamada.err = ""
                 /\ carpetas[llamada.ret[1]].nombre = Entrada
                 /\ carpetas[llamada.ret[1]].padre = raiz

\* C10 witness: "//Entrada/a/" resolved to the subfolder a of Entrada
C10_Witness ==
    /\ llamada.op = "obtener_por_ruta"
    /\ llamada.args[2] = <<"/", "/">> \o Entrada \o <<"/">> \o a \o <<"/">>
    /\ llamada.err = ""
    /\ carpetas[llamada.ret[1]].nombre = a
    /\ carpetas[carpetas[llamada.ret[1]].padre].nombre = Entrada

\* y occurs in the neighbour list of x
Adyacente(con, x, y) == x \in DOMAIN con /\ \E i \in 1..Len(con[x]) : con[x][i] = y

\* p starts at o, ends at d and every consecutive pair of it is adjacent
EsCamino(con, p, n, o, d) ==
    /\ n >= 1
    /\ p[1] = o
    /\ p[n] = d
    /\ \A i \in 1..(n - 1) : Adyacente(con, p[i], p[i + 1])

\* the paths from o to d that visit at most as many names as there are (a
\* shortest path repeats no name)
Caminos(con, o, d) ==
    UNION {{p \in [1..k -> Nombres] : EsCamino(con, p, k, o, d)} :
              k \in 1..Cardinality(Nombres)}

\* C7: bfs returns a sequence from origin to destination whose consecutive
\* names are adjacent and that has the fewest edges of all such paths, and
\* returns absent exactly when the destination is not reachable.
C7_BfsCaminoMinimo ==
    llamada.op = "bfs" =>
        LET o == llamada.args[1]
            d == llamada.args[2]
            r == llamada.ret
            C == Caminos(conexiones, o, d)
        IN IF C = {} THEN ~r.hay
           ELSE /\ r.hay
                /\ EsCamino(conexiones, r.camino, Len(r.camino), o, d)
                /\ \A p \in C : Len(r.camino) <= Cardinality(DOMAIN p)

\* C7 witness: a route through a third server where the graph also has a cycle
C7_Witness ==
    /\ llamada.op = "bfs"
    /\ llamada.ret.hay
    /\ Len(llamada.ret.camino) = 3
    /\ \E x \in Nombres : Adyacente(conexiones, x, x)

EsEntrega(c) == c.op = "enviar_entre_servidores"

\* C8 as stated: whenever a path from originName to destName exists, after
\* deliverAcrossServers the message is in the priority queue of the
\* destination server.
C8_EntregaOriginal ==
    (EsEntrega(llamada)
        /\ Caminos(conexiones, llamada.args[2], llamada.args[3]) # {})
    => Cuenta(cola[llamada.args[3]], llamada.args[1]) >= 1

\* C8 amended: whenever a path from originName to destName exists and destName
\* was added with addServer, deliverAcrossServers sends on the destination
\* server, whose priority queue then holds the message (also when originName
\* is destName); when destName was not added with addServer it reports that
\* the destination does not exist and no queue and no folder changes.
C8_EntregaEnDestino ==
    [][(EsEntrega(llamada')
          /\ Caminos(conexiones, llamada'.args[2], llamada'.args[3]) # {})
       => LET m == llamada'.args[1]
              d == llamada'.args[3]
          IN IF d \in servidores
             THEN /\ Cuenta(cola'[d], m) = 1
                  /\ Len(cola'[d]) = Len(cola[d]) + 1
                  /\ \A t \in DOMAIN cola : t # d => cola'[t] = cola[t]
                  /\ llamada'.ret = <<RutaElegida>>
             ELSE /\ cola' = cola
                  /\ carpetas' = carpetas
                  /\ llamada'.ret = <<RutaElegida, DestinoInexistente>>]_vars

\* C8 witness: delivered on a destination that is not adjacent to the origin
C8_Witness ==
    /\ EsEntrega(llamada)
    /\ llamada.args[2] # llamada.args[3]
    /\ ~Adyacente(conexiones, llamada.args[2], llamada.args[3])
    /\ llamada.args[3] \in servidores
    /\ Cuenta(cola[llamada.args[3]], llamada.args[1]) = 1

\* C9: when no path from originName to destName exists, deliverAcrossServers
\* reports the failure and changes no priority queue, no folder and no part
\* of the graph.
C9_SinRutaNadaCambia ==
    [][(EsEntrega(llamada')
          /\ Caminos(conexiones, llamada'.args[2], llamada'.args[3]) = {})
       => /\ llamada'.ret = <<SinRuta>>
          /\ llamada'.err = ""
          /\ UNCHANGED <<cola, carpetas, servidores, conexiones, usuarios, filtros,
                         objUsuarios>>]_vars

\* C9 witness: no route between two servers that were both added
C9_Witness ==
    /\ EsEntrega(llamada)
    /\ llamada.ret = <<SinRuta>>
    /\ llamada.args[2] \in servidores
    /\ llamada.args[3] \in servidores
    /\ \E x \in Nombres : Adyacente(conexiones, llamada.args[2], x)

\* the folders from raiz down to f, following the parent references of f
RECURSIVE CaminoDesdeRaiz(_, _, _)
CaminoDesdeRaiz(cs, raiz, f) ==
    IF f = raiz THEN <<raiz>> ELSE Append(CaminoDesdeRaiz(cs, raiz, cs[f].padre), f)

\* the place of child h among the children of p
Posicion(cs, p, h) ==
    CHOOSE i \in 1..Len(cs[p].subcarpetas) : cs[p].subcarpetas[i].v = h

\* f comes before g in the preorder of the tree under raiz: f is an ancestor
\* of g, or where their paths part the branch of f was inserted first
Antes(cs, raiz, f, g) ==
    LET pf == CaminoDesdeRaiz(cs, raiz, f)
        pg == CaminoDesdeRaiz(cs, raiz, g)
        n == IF Len(pf) < Len(pg) THEN Len(pf) ELSE Len(pg)
        D == {k \in 1..n : pf[k] # pg[k]}
    IN IF D = {} THEN Len(pf) < Len(pg)
       ELSE LET k == CHOOSE x \in D : \A y \in D : x <= y
            IN Posicion(cs, pf[k - 1], pf[k]) < Posicion(cs, pf[k - 1], pg[k])

\* t occurs in s when the case of the letters is ignored
Halla(t, s) ==
    \E j \in 0..(Len(s) - Len(t)) : \A c \in 1..Len(t) : lower_c(s[j + c]) = lower_c(t[c])

\* C11: searchRecursive(text) returns exactly the (folder, message) pairs of
\* the tree under the root whose subject or sender contains text, the case of
\* letters ignored, one pair per occurrence of the message in the folder, the
\* pairs of one folder in message order and the folders in preorder.
C11_BusquedaPreorden ==
    llamada.op = "buscar_mensajes_recursivo" =>
        LET raiz == llamada.args[1]
            texto == llamada.args[2]
            r == llamada.ret
            Casa(m) == Halla(texto, mensajes[m].asunto) \/ Halla(texto, mensajes[m].remitente)
        IN /\ \A i \in 1..Len(r) : r[i][1] \in Arbol(carpetas, raiz)
           /\ \A f \in Arbol(carpetas, raiz) :
                 LET rf == SelectSeq(r, LAMBDA x : x[1] = f)
                     esperados == SelectSeq(carpetas[f].mensajes, LAMBDA m : Casa(m))
                 IN /\ Len(rf) = Len(esperados)
                    /\ \A i \in 1..Len(rf) : rf[i][2] = esperados[i]
           /\ \A i, j \in 1..Len(r) :
                 (i < j /\ r[i][1] # r[j][1]) => Antes(carpetas, raiz, r[i][1], r[j][1])

\* C11 witness: a search that found a message by its sender in a folder two
\* levels down and another pair elsewhere, and left a message of the tree out
C11_Witness ==
    /\ llamada.op = "buscar_mensajes_recursivo"
    /\ Len(llamada.ret) >= 2
    /\ \E i \in 1..Len(llamada.ret) :
          /\ carpetas[llamada.ret[i][1]].padre \notin {0, llamada.args[1]}
          /\ ~Halla(llamada.args[2], mensajes[llamada.ret[i][2]].asunto)
    /\ \E i, j \in 1..Len(llamada.ret) : llamada.ret[i][1] # llamada.ret[j][1]
    /\ \E f \in Arbol(carpetas, llamada.args[1]) :
          \E k \in 1..Len(carpetas[f].mensajes) :
             \A i \in 1..Len(llamada.ret) : llamada.ret[i][2] # carpetas[f].mensajes[k]

\* C12: registerUser with a user whose email is already registered on the
\* server fails with ValueError (DuplicateUser) and leaves the registration
\* map as it was: the email still maps to the user registered first.
C12_RegistroDuplicado ==
    [][(llamada'.op = "registrar_usuario"
          /\ objUsuarios[llamada'.args[2]].email \in DOMAIN usuarios[llamada'.args[1]])
       => /\ llamada'.err = "ValueError"
          /\ usuarios' = usuarios]_vars

\* C12 witness: a second user object with the email of a user registered
\* after start was refused
C12_Witness ==
    /\ llamada.op = "registrar_usuario"
    /\ llamada.err = "ValueError"
    /\ objUsuarios[llamada.args[2]].email = OTRO
    /\ usuarios[Local][OTRO] # llamada.args[2]

\* C13: in every interleaving of add and pop, a pop on a non-empty queue
\* removes and returns one message whose priority ordinal is the minimum of
\* the messages held, and a pop on an empty queue returns None and leaves the
\* queue empty.
C13_PopMinimo ==
    [][llamada'.op = "procesar"
       => LET h == cola[llamada'.args[1]]
              h1 == cola'[llamada'.args[1]]
              r == llamada'.ret
          IN IF h = <<>>
             THEN r = 0 /\ llamada'.err = "" /\ h1 = <<>>
             ELSE /\ llamada'.err = ""
                  /\ \E i \in 1..Len(h) : h[i][2] = r
                  /\ \A j \in 1..Len(h) :
                        valor(mensajes[r].prioridad) <= valor(mensajes[h[j][2]].prioridad)
                  /\ Len(h1) = Len(h) - 1
                  /\ \A j \in 1..Len(h) :
                        Cuenta(h1, h[j][2])
                           = Cuenta(h, h[j][2]) - (IF h[j][2] = r THEN 1 ELSE 0)]_vars

\* the folder reached from f by n parent references, 0 once past a root
RECURSIVE Sube(_, _, _)
Sube(cs, f, n) == IF n = 0 \/ f = 0 THEN f ELSE Sube(cs, cs[f].padre, n - 1)

\* the places <<p, i>> where folder f is held as a child
Tenencias(cs, f) ==
    UNION {{<<p, i>> : i \in {k \in 1..Len(cs[p].subcarpetas) : cs[p].subcarpetas[k].v = f}} :
              p \in 1..Len(cs)}

\* C14: the folders of every user form a tree: child names are unique within a
\* parent, every folder with a parent is the child of that folder only, held
\* there once under its own name, a root is the child of none, and the parent
\* references of every folder lead to a root without a cycle.
C14_ArbolDeCarpetas ==
    \A f \in 1..Len(carpetas) :
        LET d == carpetas[f].subcarpetas
            p == carpetas[f].padre
        IN /\ \A i, j \in 1..Len(d) : d[i].k = d[j].k => i = j
           /\ \A i \in 1..Len(d) : d[i].v \in 1..Len(carpetas)
           /\ IF p = 0
              THEN /\ Tenencias(carpetas, f) = {}
                   /\ \E u \in 1..Len(objUsuarios) : objUsuarios[u].raiz = f
              ELSE /\ Cardinality(Tenencias(carpetas, f)) = 1
                   /\ \A x \in Tenencias(carpetas, f) :
                         x[1] = p /\ carpetas[p].subcarpetas[x[2]].k = carpetas[f].nombre
           /\ \E n \in 0..Len(carpetas) :
                 /\ Sube(carpetas, f, n) # 0
                 /\ carpetas[Sube(carpetas, f, n)].padre = 0

\* C14 witness: a third user, a folder two levels below a root, a folder that
\* listing created, and a message moved into a subfolder
C14_Witness ==
    /\ Len(objUsuarios) = 3
    /\ \E f \in 1..Len(carpetas) :
          /\ carpetas[f].padre # 0
          /\ carpetas[carpetas[f].padre].padre # 0
          /\ carpetas[f].mensajes # <<>>
    /\ \E f \in 1..Len(carpetas) : carpetas[f].nombre = Varios

\* C15: createSubfolder(name) on a folder that already has a child called
\* name fails with ValueError (DuplicateName) and changes no folder; otherwise
\* it adds exactly one new child, empty, whose parent is that folder, after
\* the children the folder had, and changes nothing else.
C15_CrearSubcarpeta ==
    [][llamada'.op = "crear_subcarpeta"
       => LET f == llamada'.args[1]
              nombre == llamada'.args[2]
              d == carpetas[f].subcarpetas
              n == Len(carpetas) + 1
          IN IF \E i \in 1..Len(d) : d[i].k = nombre
             THEN llamada'.err = "ValueError" /\ carpetas' = carpetas
             ELSE /\ llamada'.err = ""
                  /\ llamada'.ret = n
                  /\ Len(carpetas') = n
                  /\ carpetas'[n] = [nombre |-> nombre, mensajes |-> <<>>,
                                     subcarpetas |-> <<>>, padre |-> f]
                  /\ carpetas'[f].subcarpetas = Append(d, [k |-> nombre, v |-> n])
                  /\ carpetas'[f].mensajes = carpetas[f].mensajes
                  /\ carpetas'[f].padre = carpetas[f].padre
                  /\ \A g \in 1..Len(carpetas) : g # f => carpetas'[g] = carpetas[g]]_vars

\* C15 witness: a name refused in a folder whose child of that name has a
\* subfolder of its own
C15_Witness ==
    /\ llamada.op = "crear_subcarpeta"
    /\ llamada.err = "ValueError"
    /\ LET h == obtener_subcarpeta(carpetas, llamada.args[1], llamada.args[2])
       IN h # 0 /\ carpetas[h].subcarpetas # <<>>

\* C16: receive(email) and list(email, folderName) fail with ValueError
\* (UserNotFound) and change no state when email is not registered on the
\* server; for a registered email they return the message sequence of the
\* top-level folder of that name of the user the email is registered for
\* (Entrada for receive), as it was before the call when the folder existed.
C16_RecibirListar ==
    [][llamada'.op \in {"recibir", "listar"}
       => LET s == llamada'.args[1]
              email == llamada'.args[2]
              nombre == IF llamada'.op = "recibir" THEN Entrada ELSE llamada'.args[3]
          IN IF email \notin DOMAIN usuarios[s]
             THEN /\ llamada'.err = "ValueError"
                  /\ UNCHANGED <<mensajes, carpetas, objUsuarios, usuarios, filtros, cola,
                                 servidores, conexiones>>
             ELSE LET raiz == objUsuarios[usuarios[s][email]].raiz
                      antes == carpetas[raiz].subcarpetas
                      hijos == carpetas'[raiz].subcarpetas
                  IN /\ llamada'.err = ""
                     /\ \E i \in 1..Len(hijos) :
                           /\ hijos[i].k = nombre
                           /\ llamada'.ret = carpetas'[hijos[i].v].mensajes
                     /\ \A i \in 1..Len(antes) :
                           antes[i].k = nombre
                              => llamada'.ret = carpetas[antes[i].v].mensajes]_vars

\* C16 witness: receive for Ana returned the two messages of her Entrada in
\* the order they arrived
C16_Witness ==
    /\ llamada.op = "recibir"
    /\ llamada.args[2] = ANA
    /\ llamada.ret = <<1, 2>>

\* the names of the list l
Rango(l) == {l[i] : i \in 1..Len(l)}

\* the depth-first preorder told with a stack: from the name on top go to its
\* first neighbour, in list order, that is not yet in the result; when it has
\* none, drop it
RECURSIVE Preorden(_, _, _)
Preorden(con, pila, res) ==
    IF pila = <<>> THEN res
    ELSE LET top == pila[Len(pila)]
             vs == IF top \in DOMAIN con THEN con[top] ELSE <<>>
             libres == {i \in 1..Len(vs) : vs[i] \notin Rango(res)}
         IN IF libres = {} THEN Preorden(con, SubSeq(pila, 1, Len(pila) - 1), res)
            ELSE LET sig == vs[CHOOSE i \in libres : \A j \in libres : i <= j]
                 IN Preorden(con, Append(pila, sig), Append(res, sig))

\* C17: for every graph and every origin, dfs(origin) starts with origin,
\* holds every name reachable from origin exactly once and no other name, in
\* depth-first preorder along each adjacency list in insertion order.
C17_DfsPreorden ==
    llamada.op = "dfs" =>
        LET o == llamada.args[1]
            r == llamada.ret
        IN /\ r # <<>>
           /\ r[1] = o
           /\ \A i, j \in 1..Len(r) : r[i] = r[j] => i = j
           /\ Rango(r) = {d \in Nombres : Caminos(conexiones, o, d) # {}}
           /\ r = Preorden(conexiones, <<o>>, <<o>>)

\* C17 witness: a traversal of three names in a graph with a self-loop, whose
\* last name is not a neighbour of the origin
C17_Witness ==
    /\ llamada.op = "dfs"
    /\ Len(llamada.ret) = 3
    /\ ~Adyacente(conexiones, llamada.ret[1], llamada.ret[3])
    /\ \E x \in Nombres : Adyacente(conexiones, x, x)

\* C18: connect(a, b) for a pair that is already connected appends one more
\* entry to each of the two adjacency lists (two to the one list when a is b)
\* and changes the result of bfs(x, y) and of dfs(x) for no names x, y.
C18_ConectarRepetido ==
    [][(llamada'.op = "conectar"
          /\ Adyacente(conexiones, llamada'.args[1], llamada'.args[2])
          /\ Adyacente(conexiones, llamada'.args[2], llamada'.args[1]))
       => LET x == llamada'.args[1]
              y == llamada'.args[2]
          IN /\ DOMAIN conexiones' = DOMAIN conexiones
             /\ IF x = y THEN conexiones'[x] = conexiones[x] \o <<x, x>>
                ELSE /\ conexiones'[x] = Append(conexiones[x], y)
                     /\ conexiones'[y] = Append(conexiones[y], x)
             /\ \A n \in DOMAIN conexiones : n \notin {x, y} => conexiones'[n] = conexiones[n]
             /\ \A o, d \in Nombres :
                   bfs(conexiones', o, d) = bfs(conexiones, o, d)
             /\ \A o \in Nombres : dfs(conexiones', o) = dfs(conexiones, o)]_vars

\* C18 witness: a pair connected twice, one of the two having another
\* neighbour entered after the first connection of the pair
C18_Witness ==
    /\ llamada.op = "conectar"
    /\ llamada.args[1] # llamada.args[2]
    /\ LET l == conexiones[llamada.args[1]]
       IN /\ Len(l) = 3
          /\ l[1] = llamada.args[2]
          /\ l[2] \notin {llamada.args[1], llamada.args[2]}
          /\ l[3] = llamada.args[2]

\* the messages held by some folder or some priority queue
Guardados ==
    UNION {{carpetas[f].mensajes[i] : i \in 1..Len(carpetas[f].mensajes)} :
              f \in 1..Len(carpetas)}
    \cup UNION {{cola[s][i][2] : i \in 1..Len(cola[s])} : s \in DOMAIN cola}

\* C19: every message held by a folder or a priority queue has a non-empty
\* recipient and a priority among Alta, Media and Baja; building a message
\* with an empty recipient raises ValueError and creates no message, and
\* building one with a priority string outside the three values gives a
\* message whose priority is Media.
C19_MensajesValidos ==
    /\ [](\A m \in Guardados :
             /\ m \in 1..Len(mensajes)
             /\ mensajes[m].destinatario # <<>>
             /\ mensajes[m].prioridad \in {"Alta", "Media", "Baja"})
    /\ [][llamada'.op = "redactar"
          => LET destinatario == llamada'.args[2]
                 prioridad == llamada'.args[5]
                 m == llamada'.ret
             IN IF destinatario = <<>>
                THEN /\ llamada'.err = "ValueError"
                     /\ m = 0
                     /\ mensajes' = mensajes
                     /\ carpetas' = carpetas
                     /\ cola' = cola
                ELSE /\ llamada'.err = ""
                     /\ m = Len(mensajes) + 1
                     /\ Len(mensajes') = m
                     /\ SubSeq(mensajes', 1, m - 1) = mensajes
                     /\ mensajes'[m].destinatario = destinatario
                     /\ mensajes'[m].prioridad =
                           IF prioridad \in {"Alta", "Media", "Baja"}
                           THEN prioridad ELSE "Media"]_vars

\* C19 witness: a message whose priority was replaced by Media (none is
\* drafted with Media) lies in a folder and in the queue, and a draft with an
\* empty recipient has just failed
C19_Witness ==
    /\ llamada.op = "redactar"
    /\ llamada.args[2] = <<>>
    /\ llamada.err = "ValueError"
    /\ \E m \in 1..Len(mensajes) :
          /\ mensajes[m].prioridad = "Media"
          /\ \E f \in 1..Len(carpetas) :
                \E i \in 1..Len(carpetas[f].mensajes) : carpetas[f].mensajes[i] = m
          /\ \E i \in 1..Len(cola[Local]) : cola[Local][i][2] = m

\* n references to m
Copias(m, n) == [i \in 1..n |-> m]

\* the Enviados folder of the Usuario object u
CarpetaEnviados(u) == obtener_subcarpeta(carpetas, objUsuarios[u].raiz, Enviados)

\* C20 as stated: send(m) appends m to the end of the sender's Enviados folder
\* exactly when the sender's email is registered on that server; when it is
\* not registered there, no Enviados folder of any user changes.
C20_EnviadosOriginal ==
    [][(llamada'.op = "enviar" /\ llamada'.args[2] # 0)
       => LET s == llamada'.args[1]
              m == llamada'.args[2]
              remitente == mensajes'[m].remitente
          IN IF remitente \in DOMAIN usuarios[s]
             THEN LET e == CarpetaEnviados(usuarios[s][remitente])
                  IN \E n \in 1..2 :
                        carpetas'[e].mensajes = carpetas[e].mensajes \o Copias(m, n)
             ELSE \A u \in 1..Len(objUsuarios) :
                     carpetas'[CarpetaEnviados(u)].mensajes
                        = carpetas[CarpetaEnviados(u)].mensajes]_vars

\* C20 (amended): send(m) appends m to the Enviados folder of the user
\* registered under the sender's email exactly when that email is registered
\* on the server, also when the push into the queue raises.  Apart from that
\* an Enviados folder changes only by delivery: when the push did not raise,
\* the recipient is registered and the first filter that matches maps to
\* Enviados, m is appended to the recipient's Enviados folder (after the
\* sender's copy when both are the same user).
C20_Enviados ==
    [][(llamada'.op = "enviar" /\ llamada'.args[2] # 0)
       => LET s == llamada'.args[1]
              m == llamada'.args[2]
              us == usuarios[s]
              remitente == mensajes'[m].remitente
              destinatario == mensajes'[m].destinatario
              copia(u) == IF remitente \in DOMAIN us /\ us[remitente] = u
                          THEN 1 ELSE 0
              entrega(u) == IF /\ llamada'.err = ""
                               /\ destinatario \in DOMAIN us
                               /\ us[destinatario] = u
                               /\ carpeta_por_filtros(filtros[s], mensajes'[m]) = Enviados
                            THEN 1 ELSE 0
          IN \A u \in 1..Len(objUsuarios) :
                carpetas'[CarpetaEnviados(u)].mensajes
                   = carpetas[CarpetaEnviados(u)].mensajes
                        \o Copias(m, copia(u) + entrega(u))]_vars

\* C20 witness: a message from a sender that is not registered on the server
\* has been filed in the Enviados folder of its recipient
C20_Witness ==
    /\ llamada.op = "enviar"
    /\ llamada.args[2] # 0
    /\ llamada.err = ""
    /\ LET m == llamada.args[2]
           e == CarpetaEnviados(usuarios[Local][ANA])
       IN /\ mensajes[m].remitente \notin DOMAIN usuarios[Local]
          /\ mensajes[m].destinatario = ANA
          /\ carpetas[e].mensajes # <<>>
          /\ carpetas[e].mensajes[Len(carpetas[e].mensajes)] = m

\* C21: processPriorityMessages ends normally for every queue content and
\* leaves the queue of its server empty, so that a second call right after it
\* consumes no message; it changes no folder of any user.
C21_DrenaYVacia ==
    [][llamada'.op = "procesar_mensajes_prioritarios"
       => LET s == llamada'.args[1]
          IN /\ llamada'.err = ""
             /\ cola'[s] = <<>>
             /\ drenar(cola'[s], <<>>).impresos = <<>>
             /\ carpetas' = carpetas]_vars

\* C22: receive(email), and list(email, folderName) for a name that is a
\* top-level folder of the user, leave all state unchanged; list for a
\* registered user and a name that is no top-level folder does not fail,
\* creates exactly one folder, empty, with that name, as the last child of the
\* user's root, returns the empty sequence and leaves every folder that
\* existed (its name, messages, parent and children) and every message as
\* they were.
C22_LeerNoCambia ==
    [][llamada'.op \in {"recibir", "listar"}
       => LET s == llamada'.args[1]
              email == llamada'.args[2]
              nombre == IF llamada'.op = "recibir" THEN Entrada ELSE llamada'.args[3]
          IN /\ UNCHANGED <<mensajes, objUsuarios, usuarios, filtros, cola, servidores,
                            conexiones>>
             /\ IF email \notin DOMAIN usuarios[s]
                THEN carpetas' = carpetas
                ELSE LET raiz == objUsuarios[usuarios[s][email]].raiz
                         antes == carpetas[raiz].subcarpetas
                         n == Len(carpetas) + 1
                     IN IF \E i \in 1..Len(antes) : antes[i].k = nombre
                        THEN carpetas' = carpetas /\ llamada'.err = ""
                        ELSE /\ llamada'.op = "listar"
                             /\ llamada'.err = ""
                             /\ llamada'.ret = <<>>
                             /\ Len(carpetas') = n
                             /\ carpetas'[n] = [nombre |-> nombre, mensajes |-> <<>>,
                                                subcarpetas |-> <<>>, padre |-> raiz]
                             /\ carpetas'[raiz]
                                   = [carpetas[raiz] EXCEPT
                                         !.subcarpetas = Append(antes, [k |-> nombre, v |-> n])]
                             /\ \A f \in 1..Len(carpetas) :
                                   f # raiz => carpetas'[f] = carpetas[f]]_vars

\* C22 witness: list has just created the top-level folder Varios of Ana,
\* whose Entrada holds a message and a subfolder that is also called Varios
C22_Witness ==
    /\ llamada.op = "listar"
    /\ llamada.args[2] = ANA
    /\ llamada.args[3] = Varios
    /\ llamada.ret = <<>>
    /\ LET raiz == objUsuarios[usuarios[Local][ANA]].raiz
           entrada == obtener_subcarpeta(carpetas, raiz, Entrada)
           n == Len(carpetas)
       IN /\ carpetas[n].nombre = Varios
          /\ carpetas[n].padre = raiz
          /\ carpetas[entrada].mensajes # <<>>
          /\ obtener_subcarpeta(carpetas, entrada, Varios) # 0

\* C23: after any sequence of addServer and connect calls the adjacency
\* mapping is symmetric: for all distinct names x and y, y occurs in the list
\* of x as many times as x occurs in the list of y; and bfs(x, y) returns a
\* path exactly when bfs(y, x) does, with the same number of edges.
C23_AdyacenciaSimetrica ==
    /\ \A x, y \in Nombres :
          x # y => Veces(vecinos(conexiones, x), y) = Veces(vecinos(conexiones, y), x)
    /\ \A x, y \in Nombres :
          LET ida == bfs(conexiones, x, y)
              vuelta == bfs(conexiones, y, x)
          IN /\ ida.hay = vuelta.hay
             /\ ida.hay => Len(ida.camino) = Len(vuelta.camino)

\* C23 witness: two names connected twice, and a third name two edges away
\* from one of them
C23_Witness ==
    \E x, y, z \in Nombres :
        /\ x # y /\ y # z /\ x # z
        /\ Veces(vecinos(conexiones, x), y) = 2
        /\ bfs(conexiones, x, z).hay
        /\ Len(bfs(conexiones, x, z).camino) = 3
        /\ Len(bfs(conexiones, z, x).camino) = 3

====
